---------------------------- MODULE Spec2Model ----------------------------
(***************************************************************************)
(* Model of the NBA milestone collector: the two script variants           *)
(* "NBA Github.py" (local run) and "collect.py" (GitHub runner).           *)
(*                                                                         *)
(* Strings are sequences of characters.  An ASCII character is the         *)
(* one-character string itself; a non-ASCII character is written by its    *)
(* code point, e.g. "U+00E9" for e-acute, "U+200B" for the zero-width      *)
(* space.                                                                  *)
(***************************************************************************)
EXTENDS Integers, Sequences, FiniteSets, TLC

VARIABLES
    script,              \* which of the two scripts is running
    pc,                  \* position of the harness / main program
    s_in, s_once, s_twice,           \* normalisation harness
    players, raw_name, resolved,     \* resolver harness: _ALL_PLAYERS, input, result
    spieler_namen,       \* the roster read from PlayerNames.csv
    pos,                 \* index of the roster entry the main loop is at
    ergebnisse,          \* team abbreviation -> list of player reports
    not_found,           \* names resolve_player_id could not resolve
    spieler_cache,       \* name -> player id ("NBA Github.py" only)
    current_team_cache,  \* player id -> team abbreviation
    profile_calls,       \* player id -> number of CommonPlayerInfo requests sent
    history,             \* per processed roster entry: what the loop body did
    log_frame,           \* counting harness: the game log frame as fetched
    stats,               \* counting harness: the counts reported for it
    running_in_ci,       \* collect.py: GITHUB_ACTIONS == "true"
    milestones_json,     \* content of public/data/milestones.json
    rt_fn,               \* retry harness: what callable_fn does, call by call
    rt_retries,          \* retry harness: the retries argument
    rt_i,                \* retry harness: the loop variable i
    rt_calls,            \* retry harness: calls of callable_fn made
    rt_result            \* retry harness: what retry_api_call returned or raised

vars == <<script, pc, s_in, s_once, s_twice, players, raw_name, resolved,
          spieler_namen, pos, ergebnisse, not_found, spieler_cache,
          current_team_cache, profile_calls, history, log_frame, stats,
          running_in_ci, milestones_json,
          rt_fn, rt_retries, rt_i, rt_calls, rt_result>>

normVars == <<s_in, s_once, s_twice>>
resolveVars == <<players, raw_name, resolved>>
mainVars == <<spieler_namen, pos, ergebnisse, not_found, spieler_cache,
              current_team_cache, profile_calls, history>>
countVars == <<log_frame, stats>>
exportVars == <<running_in_ci, milestones_json>>
retryVars == <<rt_fn, rt_retries, rt_i, rt_calls, rt_result>>
restVars == <<countVars, exportVars, retryVars>>

LOCAL_SCRIPT == "NBA Github.py"
CI_SCRIPT == "collect.py"
Scripts == {LOCAL_SCRIPT, CI_SCRIPT}

\* None as a player id (the scripts test it with "not spieler_id"), and as a name
NoId == 0
NoName == <<>>

(***************************************************************************)
(* Bounds of the model.                                                    *)
(***************************************************************************)
MaxLen == 4

BoundedSeq(S, n) == UNION {[1..k -> S] : k \in 0..n}

Range(f) == {f[k] : k \in DOMAIN f}

(***************************************************************************)
(* Characters.                                                             *)
(***************************************************************************)
UpperCase == <<"A","B","C","D","E","F","G","H","I","J","K","L","M",
               "N","O","P","Q","R","S","T","U","V","W","X","Y","Z">>
LowerCase == <<"a","b","c","d","e","f","g","h","i","j","k","l","m",
               "n","o","p","q","r","s","t","u","v","w","x","y","z">>

\* str.lower() on one character
LowerChar(c) ==
    IF \E k \in 1..Len(UpperCase) : UpperCase[k] = c
    THEN LowerCase[CHOOSE k \in 1..Len(UpperCase) : UpperCase[k] = c]
    ELSE c

\* characters str.strip() strips and the regex class \s matches
WhitespaceChars == {" ", "\t"}

\* the typographic quotes replaced by a space; U+201A only in "NBA Github.py"
QuoteChars(sc) ==
    IF sc = LOCAL_SCRIPT THEN {"U+201E", "U+201C", "U+201D", "U+201A"}
    ELSE {"U+201E", "U+201C", "U+201D"}

\* the apostrophe variants replaced by "'"
ApostropheChars == {"U+2019", "U+00B4"}

\* the regex class [.,;:()]
PunctChars == {".", ",", ";", ":", "(", ")"}

\* the regex class [\u200b\u200c\u200d]
ZeroWidthChars == {"U+200B", "U+200C", "U+200D"}

\* characters that are not \w: everything above, the ASCII quotes and the hyphen
NonWordChars ==
    WhitespaceChars \cup {"U+201E", "U+201C", "U+201D", "U+201A"}
        \cup ApostropheChars \cup PunctChars \cup ZeroWidthChars
        \cup {"'", "\"", "-"}

IsWord(c) == c \notin NonWordChars

(***************************************************************************)
(* _normalize_name                                                         *)
(***************************************************************************)
RECURSIVE LStrip(_)
LStrip(s) ==
    IF s # <<>> /\ Head(s) \in WhitespaceChars THEN LStrip(Tail(s)) ELSE s

RECURSIVE RStrip(_)
RStrip(s) ==
    IF s # <<>> /\ s[Len(s)] \in WhitespaceChars
    THEN RStrip(SubSeq(s, 1, Len(s) - 1)) ELSE s

\* str.strip()
Strip(s) == RStrip(LStrip(s))

\* str.lower()
Lower(s) == [k \in 1..Len(s) |-> LowerChar(s[k])]

\* s.replace(c, to) for every c of from
ReplaceChars(s, from, to) == [k \in 1..Len(s) |-> IF s[k] \in from THEN to ELSE s[k]]

\* re.sub(r"[...]", "", s)
RemoveChars(s, set) == SelectSeq(s, LAMBDA c : c \notin set)

\* re.sub(r"\s+", " ", s)
CollapseSpaces(s) ==
    LET keep == SelectSeq([k \in 1..Len(s) |-> k],
                          LAMBDA k : \/ s[k] \notin WhitespaceChars
                                     \/ k = 1
                                     \/ s[k - 1] \notin WhitespaceChars)
    IN  [j \in 1..Len(keep) |->
            IF s[keep[j]] \in WhitespaceChars THEN " " ELSE s[keep[j]]]

\* the alternatives of \b(jr|sr|ii|iii|iv|v)\b, in the order the regex tries them
SUFFIXES == << <<"j","r">>, <<"s","r">>, <<"i","i">>, <<"i","i","i">>,
               <<"i","v">>, <<"v">> >>

\* \b at the gap before position p of s (between s[p-1] and s[p])
WordBoundary(s, p) ==
    LET before == p > 1 /\ p - 1 <= Len(s) /\ IsWord(s[p - 1])
        after  == p >= 1 /\ p <= Len(s) /\ IsWord(s[p])
    IN  before # after

\* length of the match of \b(jr|sr|ii|iii|iv|v)\b starting at p, 0 if none
SuffixMatchAt(s, p) ==
    LET fits(t) == /\ p + Len(t) - 1 <= Len(s)
                   /\ SubSeq(s, p, p + Len(t) - 1) = t
                   /\ WordBoundary(s, p + Len(t))
        hits == {k \in 1..Len(SUFFIXES) : fits(SUFFIXES[k])}
    IN  IF WordBoundary(s, p) /\ hits # {}
        THEN Len(SUFFIXES[CHOOSE k \in hits : \A j \in hits : k <= j])
        ELSE 0

\* re.sub(r"\b(jr|sr|ii|iii|iv|v)\b", "", s): scan from position p
RECURSIVE RemoveSuffixesFrom(_, _)
RemoveSuffixesFrom(s, p) ==
    IF p > Len(s) THEN <<>>
    ELSE LET m == SuffixMatchAt(s, p)
         IN  IF m > 0 THEN RemoveSuffixesFrom(s, p + m)
             ELSE <<s[p]>> \o RemoveSuffixesFrom(s, p + 1)

RemoveSuffixes(s) == RemoveSuffixesFrom(s, 1)

\* _normalize_name with the zero-width characters stripped after the suffix
\* tokens instead of before them
NormalizeZeroWidthLast(sc, s) ==
    LET s1 == Lower(Strip(s))
        s2 == ReplaceChars(ReplaceChars(s1, QuoteChars(sc), " "), ApostropheChars, "'")
        s3 == ReplaceChars(s2, {"\""}, " ")
        s4 == ReplaceChars(s3, PunctChars, " ")
        s5 == ReplaceChars(s4, {"-"}, " ")
        s7 == CollapseSpaces(s5)
        s8 == RemoveSuffixes(s7)
        s9 == RemoveChars(s8, ZeroWidthChars)
    IN  Strip(CollapseSpaces(s9))

_normalize_name(sc, s) ==
    LET s1 == Lower(Strip(s))
        s2 == ReplaceChars(ReplaceChars(s1, QuoteChars(sc), " "), ApostropheChars, "'")
        s3 == ReplaceChars(s2, {"\""}, " ")
        s4 == ReplaceChars(s3, PunctChars, " ")
        s5 == ReplaceChars(s4, {"-"}, " ")
        s6 == RemoveChars(s5, ZeroWidthChars)
        s7 == CollapseSpaces(s6)
        s8 == RemoveSuffixes(s7)
    IN  Strip(CollapseSpaces(s8))

(***************************************************************************)
(* Harness for _normalize_name: normalise an arbitrary bounded string,     *)
(* then normalise the result again.                                        *)
(***************************************************************************)
NormAlphabet == {"a", "j", "r", "I", "v", " ", "-", "U+200B", "U+201A"}

IdleMain ==
    /\ spieler_namen = <<>>
    /\ pos = 0
    /\ ergebnisse = <<>>
    /\ not_found = <<>>
    /\ spieler_cache = <<>>
    /\ current_team_cache = <<>>
    /\ profile_calls = <<>>
    /\ history = <<>>

IdleResolve ==
    /\ players = <<>>
    /\ raw_name = <<>>
    /\ resolved = [id |-> NoId, name |-> NoName]

IdleNorm ==
    /\ s_in = <<>>
    /\ s_once = <<>>
    /\ s_twice = <<>>

IdleCount ==
    /\ log_frame = <<>>
    /\ stats = <<>>

\* no run, no file
NoFile == <<"no file">>

IdleExport ==
    /\ running_in_ci = FALSE
    /\ milestones_json = NoFile

IdleRetry ==
    /\ rt_fn = <<>>
    /\ rt_retries = 0
    /\ rt_i = 0
    /\ rt_calls = 0
    /\ rt_result = <<>>

IdleRest == IdleCount /\ IdleExport /\ IdleRetry

InitNorm ==
    /\ script \in Scripts
    /\ pc = "start"
    /\ s_in \in BoundedSeq(NormAlphabet, MaxLen)
    /\ s_once = <<>>
    /\ s_twice = <<>>
    /\ IdleResolve
    /\ IdleMain
    /\ IdleRest

Normalize ==
    /\ pc = "start"
    /\ s_once' = _normalize_name(script, s_in)
    /\ pc' = "once"
    /\ UNCHANGED <<restVars, script, s_in, s_twice, resolveVars, mainVars>>

NormalizeAgain ==
    /\ pc = "once"
    /\ s_twice' = _normalize_name(script, s_once)
    /\ pc' = "twice"
    /\ UNCHANGED <<restVars, script, s_in, s_once, resolveVars, mainVars>>

NextNorm == Normalize \/ NormalizeAgain

SpecNorm == InitNorm /\ [][NextNorm]_vars


\* C10: _normalize_name is idempotent: normalising a normalised string again
\* leaves it as it is, for every input string.
C10_NormalizeIdempotent == pc = "twice" => s_twice = s_once

\* a string holding an upper-case suffix token, which the first pass lowered
\* and removed, has been normalised twice
C10_Witness ==
    /\ pc = "twice"
    /\ s_in = <<"a", "-", "I", "v">>
    /\ s_once = <<"a">>

(***************************************************************************)
(* The player index and the lookup tables.                                 *)
(*                                                                         *)
(* A player is a record [id, full_name, is_active] as returned by          *)
(* static_players.get_players(); ps is the list _ALL_PLAYERS.              *)
(***************************************************************************)

\* the keys of _name_index
IndexKeys(sc, ps) == {_normalize_name(sc, ps[k].full_name) : k \in 1..Len(ps)}

\* _name_index.get(norm, []): the players of that normalised name, in the
\* order of _ALL_PLAYERS
IndexGet(sc, ps, norm) ==
    SelectSeq(ps, LAMBDA p : _normalize_name(sc, p.full_name) = norm)

\* ALIAS_OVERRIDES as a list of <<key, target>>
ALIAS_COMMON_1 ==
    << << <<"v","j"," ","e","d","g","e","c","o","m","b">>,
          <<"v","j"," ","e","d","g","e","c","o","m","b","e">> >>,
       << <<"v","j"," ","e","d","g","e","c","o","m","e">>,
          <<"v","j"," ","e","d","g","e","c","o","m","b","e">> >> >>

ALIAS_LOCAL_1 ==
    << << <<"v","j"," ","e","d","g","e","c","o","m">>,
          <<"v","j"," ","e","d","g","e","c","o","m","b","e">> >> >>

ALIAS_COMMON_2 ==
    << << <<"v"," ","j"," ","e","d","g","e","c","o","m","b","e">>,
          <<"v","j"," ","e","d","g","e","c","o","m","b","e">> >>,
       << <<"v","a","l","d","e","z"," ","d","r","e","x","e","l"," ","v"," ","j"," ",
            "e","d","g","e","c","o","m","b","e">>,
          <<"v","j"," ","e","d","g","e","c","o","m","b","e">> >>,
       << <<"v","i","t"," ","k","r","e","j","c","i">>,
          <<"v","U+00ED","t"," ","k","r","e","j","U+010D","U+00ED">> >>,
       << <<"j","a","k","o","b"," ","p","o","e","l","t","l">>,
          <<"j","a","k","o","b"," ","p","U+00F6","l","t","l">> >>,
       << <<"l","e","s","t","e","r"," ","q","u","i","U+00F1","o","n","e","s">>,
          <<"l","e","s","t","e","r"," ","q","u","i","n","o","n","e","s">> >>,
       << <<"p","a","c","o","m","e"," ","d","a","d","i","e","t">>,
          <<"p","a","c","U+00F4","m","e"," ","d","a","d","i","e","t">> >>,
       << <<"m","o","n","t","e"," ","m","o","r","r","i","s">>,
          <<"m","o","n","t","U+00E9"," ","m","o","r","r","i","s">> >>,
       << <<"t","a","z","e"," ","m","o","o","r","e">>,
          <<"t","a","z","U+00E9"," ","m","o","o","r","e">> >>,
       << <<"i","s","i","a","h"," ","c","r","a","w","f","o","r","d">>,
          <<"i","s","a","i","a","h"," ","c","r","a","w","f","o","r","d">> >>,
       << <<"h","o","o","d"," ","s","c","h","i","f","i","n","o"," ","j","a","l","e","n">>,
          <<"j","a","l","e","n"," ","h","o","o","d"," ","s","c","h","i","f","i","n","o">> >> >>

ALIAS_LOCAL_2 ==
    << << <<"h","o","o","d"," ","s","c","h","i","f","i","n","o">>,
          <<"j","a","l","e","n"," ","h","o","o","d"," ","s","c","h","i","f","i","n","o">> >> >>

ALIAS_COMMON_3 ==
    << << <<"h","o","o","d","-","s","c","h","i","f","i","n","o"," ","j","a","l","e","n">>,
          <<"j","a","l","e","n"," ","h","o","o","d"," ","s","c","h","i","f","i","n","o">> >>,
       << <<"d","a","r","i","q"," ","m","i","l","l","e","r"," ","w","h","i","t","e","h","e","a","d">>,
          <<"d","a","r","i","q"," ","w","h","i","t","e","h","e","a","d">> >>,
       << <<"d","a","r","i","q"," ","m","i","l","l","e","r","-","w","h","i","t","e","h","e","a","d">>,
          <<"d","a","r","i","q"," ","w","h","i","t","e","h","e","a","d">> >> >>

ALIAS_OVERRIDES(sc) ==
    IF sc = LOCAL_SCRIPT
    THEN ALIAS_COMMON_1 \o ALIAS_LOCAL_1 \o ALIAS_COMMON_2 \o ALIAS_LOCAL_2 \o ALIAS_COMMON_3
    ELSE ALIAS_COMMON_1 \o ALIAS_COMMON_2 \o ALIAS_COMMON_3

\* MANUAL_PLAYER_IDS as a list of <<key, id>>: empty in both scripts
MANUAL_PLAYER_IDS == <<>>

\* key in table
HasKey(table, key) == \E k \in 1..Len(table) : table[k][1] = key

\* table[key]
Lookup(table, key) == table[CHOOSE k \in 1..Len(table) : table[k][1] = key][2]

(***************************************************************************)
(* difflib.get_close_matches(word, possibilities, n=1, cutoff=0.82)        *)
(***************************************************************************)
FUZZY_CUTOFF_PERCENT == 82

\* length of the common run of a from i and b from j, inside a[..ahi], b[..bhi]
RECURSIVE CommonRun(_, _, _, _, _, _)
CommonRun(a, i, ahi, b, j, bhi) ==
    IF i <= ahi /\ j <= bhi /\ a[i] = b[j]
    THEN 1 + CommonRun(a, i + 1, ahi, b, j + 1, bhi)
    ELSE 0

\* SequenceMatcher.find_longest_match on a[alo..ahi], b[blo..bhi]: the longest
\* common block, the earliest in a, then the earliest in b
FindLongestMatch(a, alo, ahi, b, blo, bhi) ==
    LET blocks == {<<i, j, CommonRun(a, i, ahi, b, j, bhi)>> :
                       i \in alo..ahi, j \in blo..bhi}
        better(x, y) == \/ x[3] > y[3]
                        \/ x[3] = y[3] /\ x[1] < y[1]
                        \/ x[3] = y[3] /\ x[1] = y[1] /\ x[2] <= y[2]
    IN  IF blocks = {} THEN <<alo, blo, 0>>
        ELSE CHOOSE x \in blocks : \A y \in blocks : better(x, y)

\* the number of matched characters of SequenceMatcher.get_matching_blocks
RECURSIVE MatchCount(_, _, _, _, _, _)
MatchCount(a, alo, ahi, b, blo, bhi) ==
    IF alo > ahi \/ blo > bhi THEN 0
    ELSE LET m == FindLongestMatch(a, alo, ahi, b, blo, bhi)
         IN  IF m[3] = 0 THEN 0
             ELSE m[3] + MatchCount(a, alo, m[1] - 1, b, blo, m[2] - 1)
                       + MatchCount(a, m[1] + m[3], ahi, b, m[2] + m[3], bhi)

\* SequenceMatcher(a = x, b = word).ratio() >= cutoff, in hundredths
RatioAtLeastCutoff(x, word) ==
    IF Len(x) + Len(word) = 0 THEN TRUE
    ELSE 200 * MatchCount(x, 1, Len(x), word, 1, Len(word))
             >= FUZZY_CUTOFF_PERCENT * (Len(x) + Len(word))

\* a.ratio() > b.ratio() for the two candidates x and y against word
RatioGreater(x, y, word) ==
    LET mx == MatchCount(x, 1, Len(x), word, 1, Len(word))
        my == MatchCount(y, 1, Len(y), word, 1, Len(word))
    IN  mx * (Len(y) + Len(word)) > my * (Len(x) + Len(word))

RatioEqual(x, y, word) == ~RatioGreater(x, y, word) /\ ~RatioGreater(y, x, word)

\* the characters a normalised name is made of here, in code point order
CodePointOrder ==
    <<" ", "'", "0", "1", "2", "3", "4", "5", "6", "7", "8", "9", "_",
      "a", "b", "c", "d", "e", "f", "g", "h", "i", "j", "k", "l", "m",
      "n", "o", "p", "q", "r", "s", "t", "u", "v", "w", "x", "y", "z",
      "U+00E9", "U+00ED", "U+00F1", "U+00F4", "U+00F6", "U+010D", "U+201A">>

\* the rank of ord(c)
Ord(c) == CHOOSE k \in 1..Len(CodePointOrder) : CodePointOrder[k] = c

\* a < b for two strings
RECURSIVE StrLess(_, _)
StrLess(a, b) ==
    IF b = <<>> THEN FALSE
    ELSE IF a = <<>> THEN TRUE
    ELSE IF Head(a) = Head(b) THEN StrLess(Tail(a), Tail(b))
    ELSE Ord(Head(a)) < Ord(Head(b))

\* get_close_matches(word, keys, n=1, cutoff=0.82): the empty set, or the one
\* key of the highest ratio (the greatest string among equal ratios)
GetCloseMatches(word, keys) ==
    LET close == {x \in keys : RatioAtLeastCutoff(x, word)}
    IN  {x \in close : \A y \in close \ {x} :
            \/ RatioGreater(x, y, word)
            \/ RatioEqual(x, y, word) /\ StrLess(y, x)}

(***************************************************************************)
(* resolve_player_id                                                       *)
(***************************************************************************)

\* step 1: the normalised name, replaced by the normalised alias target when
\* it is a key of ALIAS_OVERRIDES
WorkingName(sc, name) ==
    LET norm == _normalize_name(sc, name)
    IN  IF HasKey(ALIAS_OVERRIDES(sc), norm)
        THEN _normalize_name(sc, Lookup(ALIAS_OVERRIDES(sc), norm))
        ELSE norm

\* a pick that ignores is_active
PickFirst(candidates) == candidates[1]

\* active[0] if active else candidates[0]
PickCandidate(candidates) ==
    LET active == SelectSeq(candidates, LAMBDA c : c.is_active)
    IN  IF active # <<>> THEN active[1] ELSE candidates[1]

\* norm.split()[-1], or <<>> when norm.split() is empty
RECURSIVE LastTokenOf(_)
LastTokenOf(s) ==
    IF s = <<>> \/ s[Len(s)] \in WhitespaceChars THEN <<>>
    ELSE LastTokenOf(SubSeq(s, 1, Len(s) - 1)) \o <<s[Len(s)]>>

LastToken(norm) == LastTokenOf(RStrip(norm))

\* s.endswith(suffix)
EndsWith(s, suffix) ==
    /\ Len(suffix) <= Len(s)
    /\ SubSeq(s, Len(s) - Len(suffix) + 1, Len(s)) = suffix

\* the players whose normalised full name ends with " " + the last token
SurnamePool(sc, ps, norm) ==
    IF LastToken(norm) = <<>> THEN <<>>
    ELSE SelectSeq(ps, LAMBDA p :
            EndsWith(_normalize_name(sc, p.full_name), <<" ">> \o LastToken(norm)))

\* only "NBA Github.py" has the surname fallback
HasSurnameFallback(sc) == sc = LOCAL_SCRIPT

NotResolved == [id |-> NoId, name |-> NoName]

\* resolve_player_id with the alias looked up only when the name is in no index entry
ResolveExactBeforeAlias(sc, ps, name) ==
    LET direct == IndexGet(sc, ps, _normalize_name(sc, name))
        norm   == WorkingName(sc, name)
        exact  == IndexGet(sc, ps, norm)
        close  == GetCloseMatches(norm, IndexKeys(sc, ps))
        pool   == IF HasSurnameFallback(sc) THEN SurnamePool(sc, ps, norm) ELSE <<>>
        found(pick) == [id |-> pick.id, name |-> pick.full_name]
    IN  IF direct # <<>> THEN found(PickCandidate(direct))
        ELSE IF exact # <<>> THEN found(PickCandidate(exact))
        ELSE IF close # {}
             THEN found(PickCandidate(IndexGet(sc, ps, CHOOSE x \in close : TRUE)))
        ELSE IF pool # <<>> THEN found(PickCandidate(pool))
        ELSE NotResolved

\* resolve_player_id(name) -> (player_id, resolved_full_name) or (None, None).
\* The manual branch returns the name as given; "NBA Github.py" first asks
\* CommonPlayerInfo for a display name there, which no run does, as
\* MANUAL_PLAYER_IDS is empty.
resolve_player_id(sc, ps, name) ==
    LET norm  == WorkingName(sc, name)
        exact == IndexGet(sc, ps, norm)
        close == GetCloseMatches(norm, IndexKeys(sc, ps))
        pool  == IF HasSurnameFallback(sc) THEN SurnamePool(sc, ps, norm) ELSE <<>>
        found(pick) == [id |-> pick.id, name |-> pick.full_name]
    IN  IF HasKey(MANUAL_PLAYER_IDS, norm)
        THEN [id |-> Lookup(MANUAL_PLAYER_IDS, norm), name |-> name]
        ELSE IF exact # <<>> THEN found(PickCandidate(exact))
        ELSE IF close # {}
             THEN found(PickCandidate(IndexGet(sc, ps, CHOOSE x \in close : TRUE)))
        ELSE IF pool # <<>> THEN found(PickCandidate(pool))
        ELSE NotResolved

(***************************************************************************)
(* Harness for resolve_player_id: one call, for a player list and a name   *)
(* drawn from the samples below.                                           *)
(***************************************************************************)
MaxPlayers == 3

MONTE_MORRIS  == <<"M","o","n","t","e"," ","M","o","r","r","i","s">>
MONTE_MORRIS_ACUTE == <<"M","o","n","t","U+00E9"," ","M","o","r","r","i","s">>
MIKE_JAMES    == <<"M","i","k","e"," ","J","a","m","e","s">>
MIKE_JAMES_JR == <<"M","i","k","e"," ","J","a","m","e","s"," ","J","r",".">>
LEBRON_JAMES  == <<"L","e","B","r","o","n"," ","J","a","m","e","s">>
MIKE_JAME     == <<"m","i","k","e"," ","j","a","m","e">>
XX_JAMES      == <<"X","x"," ","J","a","m","e","s">>
ZZZ           == <<"Z","z","z">>
LEBRON_JAMES_LOWER == <<"l","e","b","r","o","n"," ","j","a","m","e","s"," ">>

PlayerPool ==
    { [id |-> 1, full_name |-> MONTE_MORRIS,       is_active |-> FALSE],
      [id |-> 2, full_name |-> MONTE_MORRIS_ACUTE, is_active |-> TRUE],
      [id |-> 3, full_name |-> MIKE_JAMES_JR,      is_active |-> FALSE],
      [id |-> 4, full_name |-> MIKE_JAMES,         is_active |-> TRUE],
      [id |-> 5, full_name |-> LEBRON_JAMES,       is_active |-> FALSE] }

\* every list of up to MaxPlayers distinct players
PlayerLists ==
    {ps \in BoundedSeq(PlayerPool, MaxPlayers) :
        \A j, k \in 1..Len(ps) : j # k => ps[j] # ps[k]}

RawNames == {MONTE_MORRIS, MONTE_MORRIS_ACUTE, MIKE_JAMES, MIKE_JAMES_JR, MIKE_JAME,
             XX_JAMES, ZZZ, LEBRON_JAMES_LOWER, <<>>}

InitResolve ==
    /\ script \in Scripts
    /\ pc = "start"
    /\ players \in PlayerLists
    /\ raw_name \in RawNames
    /\ resolved = NotResolved
    /\ IdleNorm
    /\ IdleMain
    /\ IdleRest

Resolve ==
    /\ pc = "start"
    /\ resolved' = resolve_player_id(script, players, raw_name)
    /\ pc' = "resolved"
    /\ UNCHANGED <<restVars, script, players, raw_name, normVars, mainVars>>

NextResolve == Resolve

SpecResolve == InitResolve /\ [][NextResolve]_vars

(***************************************************************************)
(* Properties of resolve_player_id.                                        *)
(***************************************************************************)
IdsOf(candidates) == {candidates[k].id : k \in 1..Len(candidates)}

\* the candidate list of each step for the call in progress
ExactOfCall == IndexGet(script, players, WorkingName(script, raw_name))
CloseOfCall == GetCloseMatches(WorkingName(script, raw_name), IndexKeys(script, players))
FuzzyOfCall ==
    IF CloseOfCall = {} THEN <<>>
    ELSE IndexGet(script, players, CHOOSE x \in CloseOfCall : TRUE)
SurnameOfCall == SurnamePool(script, players, WorkingName(script, raw_name))

\* C1: when the normalised raw name is an alias key and also an index key, and
\* the normalised alias target is another index key, the id returned is that
\* of a player of the target's entry and not of the directly matching entry.
C1_AliasPrecedence ==
    pc = "resolved" =>
        LET norm   == _normalize_name(script, raw_name)
            alias  == ALIAS_OVERRIDES(script)
            target == _normalize_name(script, Lookup(alias, norm))
        IN  (/\ HasKey(alias, norm)
             /\ norm \in IndexKeys(script, players)
             /\ target \in IndexKeys(script, players)
             /\ target # norm)
            => /\ resolved.id \in IdsOf(IndexGet(script, players, target))
               /\ resolved.id \notin IdsOf(IndexGet(script, players, norm))

\* "Monte Morris" is both an alias key and the name of player 1; its alias
\* target is the name of player 2, and player 2 was returned
C1_Witness ==
    /\ pc = "resolved"
    /\ raw_name = MONTE_MORRIS
    /\ \E j, k \in 1..Len(players) : players[j].id = 1 /\ players[k].id = 2
    /\ resolved.id = 2

\* C2: the steps are tried in the order alias, manual, exact, fuzzy, surname and
\* the first that yields candidates decides; when exact and fuzzy yield nothing
\* and some player's normalised name ends with " " + the last token, one of
\* those players is returned; NotFound only when no step has a candidate.
C2_OrderedFallback ==
    pc = "resolved" =>
        /\ ExactOfCall # <<>> => resolved.id \in IdsOf(ExactOfCall)
        /\ ExactOfCall = <<>> /\ FuzzyOfCall # <<>> => resolved.id \in IdsOf(FuzzyOfCall)
        /\ ExactOfCall = <<>> /\ FuzzyOfCall = <<>> /\ SurnameOfCall # <<>>
              => resolved.id \in IdsOf(SurnameOfCall)
        /\ resolved = NotResolved
              => ExactOfCall = <<>> /\ FuzzyOfCall = <<>> /\ SurnameOfCall = <<>>

\* the candidate list of the step that decided the call
WinningCandidates ==
    IF ExactOfCall # <<>> THEN ExactOfCall
    ELSE IF FuzzyOfCall # <<>> THEN FuzzyOfCall
    ELSE IF HasSurnameFallback(script) THEN SurnameOfCall
    ELSE <<>>

\* C3: whichever step produced the candidates, the player returned is the first
\* active candidate in list order if one is active, else the first candidate.
C3_TieBreak ==
    pc = "resolved" /\ resolved # NotResolved =>
        LET c == WinningCandidates
        IN  \E k \in 1..Len(c) :
                /\ resolved = [id |-> c[k].id, name |-> c[k].full_name]
                /\ IF \E j \in 1..Len(c) : c[j].is_active
                   THEN c[k].is_active /\ \A j \in 1..(k - 1) : ~c[j].is_active
                   ELSE k = 1

\* the fuzzy step found two players of one normalised name, the inactive one
\* first in the list, and the active one was returned
C3_Witness ==
    /\ pc = "resolved"
    /\ raw_name = MIKE_JAME
    /\ ExactOfCall = <<>>
    /\ Len(FuzzyOfCall) = 2
    /\ ~FuzzyOfCall[1].is_active
    /\ resolved.id = FuzzyOfCall[2].id

(***************************************************************************)
(* retry_api_call                                                          *)
(*                                                                         *)
(* What the stats server does on successive requests is a list of          *)
(* outcomes: [kind |-> "timeout"] (ReadTimeout), [kind |-> "error"] (any   *)
(* other exception) or [kind |-> "ok", data |-> the data frame].           *)
(***************************************************************************)
RETRIES_LOCAL == 3
RETRIES_CI == 1

\* the default of the retries parameter, which every call site uses
RETRIES(sc) == IF sc = LOCAL_SCRIPT THEN RETRIES_LOCAL ELSE RETRIES_CI

EmptyFrame == [columns |-> {}, rows |-> <<>>]

TimeoutOutcome == [kind |-> "timeout", data |-> EmptyFrame]
ErrorOutcome == [kind |-> "error", data |-> EmptyFrame]
OkOutcome(frame) == [kind |-> "ok", data |-> frame]

\* for i in range(retries): try: return callable_fn() / except ReadTimeout: sleep;
\* afterwards raise ReadTimeout.  calls counts the invocations of callable_fn.
RECURSIVE RetryFrom(_, _, _)
RetryFrom(attempts, retries, i) ==
    IF i > retries
    THEN [kind |-> "timeout", data |-> EmptyFrame, calls |-> i - 1]
    ELSE IF attempts[i].kind = "timeout"
         THEN RetryFrom(attempts, retries, i + 1)
         ELSE [kind |-> attempts[i].kind, data |-> attempts[i].data, calls |-> i]

retry_api_call(attempts, retries) == RetryFrom(attempts, retries, 1)

\* the server's answers to at most `retries` requests: timeouts up to the first
\* answer that is not one
AttemptRuns(retries, finals) ==
    {[i \in 1..k |-> IF i < k THEN TimeoutOutcome ELSE f] : k \in 1..retries, f \in finals}
        \cup {[i \in 1..retries |-> TimeoutOutcome]}

(***************************************************************************)
(* Alias harness: every key of ALIAS_OVERRIDES is normalised, and raw       *)
(* spellings of it are taken through the alias step of resolve_player_id.  *)
(***************************************************************************)
AliasKeys(sc) == {ALIAS_OVERRIDES(sc)[k][1] : k \in 1..Len(ALIAS_OVERRIDES(sc))}

UpperChar(c) ==
    IF \E k \in 1..Len(LowerCase) : LowerCase[k] = c
    THEN UpperCase[CHOOSE k \in 1..Len(LowerCase) : LowerCase[k] = c]
    ELSE c

RECURSIVE DoubleBlanks(_)
DoubleBlanks(str) ==
    IF str = <<>> THEN <<>>
    ELSE (IF Head(str) = " " THEN <<" ", " ">> ELSE <<Head(str)>>)
             \o DoubleBlanks(Tail(str))

\* spellings of a name in a roster file: as it is, in capitals between blanks,
\* with two blanks between the words
RawSpellings(str) ==
    { str,
      <<" ">> \o [k \in DOMAIN str |-> UpperChar(str[k])] \o <<" ">>,
      DoubleBlanks(str) }

InitAlias ==
    /\ script \in Scripts
    /\ pc = "start"
    /\ s_in \in AliasKeys(script)
    /\ raw_name \in RawSpellings(s_in)
    /\ s_once = <<>>
    /\ s_twice = <<>>
    /\ players = <<>>
    /\ resolved = NotResolved
    /\ IdleMain
    /\ IdleRest

\* the key normalised, and the working name resolve_player_id goes on with
\* for the raw spelling
AliasStep ==
    /\ pc = "start"
    /\ s_once' = _normalize_name(script, s_in)
    /\ resolved' = [id |-> NoId, name |-> WorkingName(script, raw_name)]
    /\ pc' = "aliased"
    /\ UNCHANGED <<restVars, script, s_in, s_twice, players, raw_name, mainVars>>

NextAlias == AliasStep

SpecAlias == InitAlias /\ [][NextAlias]_vars

\* C15: every key of ALIAS_OVERRIDES is its own normal form, and the alias
\* step fires for the raw spellings of the key: resolve_player_id goes on
\* with the normal form of the key's target.
C15_AliasKeysNormalized ==
    pc = "aliased" =>
        /\ s_once = s_in
        /\ resolved.name = _normalize_name(script, Lookup(ALIAS_OVERRIDES(script), s_in))

(***************************************************************************)
(* Retry harness: retry_api_call step by step, one action per pass of its  *)
(* loop.                                                                   *)
(***************************************************************************)
MaxRetries == 3

\* what a call of callable_fn can do
CallOutcomes ==
    { TimeoutOutcome, ErrorOutcome, OkOutcome(EmptyFrame),
      OkOutcome([columns |-> {"PTS"}, rows |-> <<>>]) }

\* a loop that makes one pass more
RangeInclusive(retries) == 0..retries

\* range(retries)
Range_retries(retries) == 0..(retries - 1)

InitRetry ==
    /\ script \in Scripts
    /\ pc = "retry"
    /\ rt_retries \in 0..MaxRetries
    /\ rt_fn \in [1..(MaxRetries + 1) -> CallOutcomes]
    /\ rt_i = 0
    /\ rt_calls = 0
    /\ rt_result = <<>>
    /\ IdleNorm
    /\ IdleResolve
    /\ IdleMain
    /\ IdleCount
    /\ IdleExport

\* one pass of the loop: try: return callable_fn() / except ReadTimeout: sleep
RetryAttempt ==
    /\ pc = "retry"
    /\ rt_i \in Range_retries(rt_retries)
    /\ rt_calls' = rt_calls + 1
    /\ \E outcome \in {rt_fn[rt_calls + 1]} :
          IF outcome.kind = "timeout"
          THEN /\ rt_i' = rt_i + 1
               /\ UNCHANGED <<pc, rt_result>>
          ELSE /\ rt_result' = outcome
               /\ pc' = IF outcome.kind = "ok" THEN "returned" ELSE "raised"
               /\ UNCHANGED rt_i
    /\ UNCHANGED <<script, rt_fn, rt_retries, normVars, resolveVars, mainVars,
                   countVars, exportVars>>

\* the loop is over: raise ReadTimeout("API-Anfrage mehrfach fehlgeschlagen.")
RetryGiveUp ==
    /\ pc = "retry"
    /\ rt_i \notin Range_retries(rt_retries)
    /\ rt_result' = TimeoutOutcome
    /\ pc' = "raised"
    /\ UNCHANGED <<script, rt_fn, rt_retries, rt_i, rt_calls, normVars, resolveVars,
                   mainVars, countVars, exportVars>>

NextRetry == RetryAttempt \/ RetryGiveUp

\* the interpreter runs the loop on: a pass that can be made is made
SpecRetry == InitRetry /\ [][NextRetry]_vars /\ WF_vars(NextRetry)

\* the calls made so far all timed out
OnlyTimeouts(n) == \A k \in 1..n : rt_fn[k].kind = "timeout"

\* C14: callable_fn is called at most `retries` times; the result of the first
\* call that does not time out is returned, another exception is raised at
\* once, and no call follows either; after `retries` timeouts the call raises a
\* timeout; and the call always ends.
C14_BoundedRetry ==
    /\ [](/\ rt_calls <= rt_retries
          /\ pc = "retry" => OnlyTimeouts(rt_calls)
          /\ pc = "returned" =>
                /\ rt_calls >= 1
                /\ OnlyTimeouts(rt_calls - 1)
                /\ rt_fn[rt_calls].kind = "ok"
                /\ rt_result = rt_fn[rt_calls]
          /\ (pc = "raised" /\ rt_result.kind = "error") =>
                /\ rt_calls >= 1
                /\ OnlyTimeouts(rt_calls - 1)
                /\ rt_result = rt_fn[rt_calls]
          /\ (pc = "raised" /\ rt_result.kind = "timeout") =>
                /\ rt_calls = rt_retries
                /\ OnlyTimeouts(rt_calls)
          /\ pc \in {"returned", "raised"} =>
                LET r == retry_api_call(rt_fn, rt_retries)
                IN  /\ r.kind = rt_result.kind
                    /\ r.data = rt_result.data
                    /\ r.calls = rt_calls)
    /\ [][pc # "retry" => rt_calls' = rt_calls]_vars
    /\ <>(pc \in {"returned", "raised"})

C14_Witness ==
    /\ pc = "raised"
    /\ rt_retries = MaxRetries
    /\ rt_calls = MaxRetries
    /\ rt_result = TimeoutOutcome

(***************************************************************************)
(* Data frames: [columns |-> set of column names, rows |-> list of rows],  *)
(* a row a function from the columns to cells; a cell is an integer or a   *)
(* string.                                                                 *)
(***************************************************************************)
IntCell(n) == [t |-> "int", v |-> n]
StrCell(str) == [t |-> "str", v |-> str]

DigitChars == <<"0", "1", "2", "3", "4", "5", "6", "7", "8", "9">>

RECURSIVE Digits(_)
Digits(n) ==
    IF n < 10 THEN <<DigitChars[n + 1]>>
    ELSE Digits(n \div 10) \o <<DigitChars[(n % 10) + 1]>>

\* str(cell)
PyStr(cell) == IF cell.t = "int" THEN Digits(cell.v) ELSE cell.v

\* df.empty
FrameEmpty(df) == df.rows = <<>> \/ df.columns = {}

\* spiele.rename(columns={"TOV": "TO"}) when there is a TOV and no TO column
RenameTOV(df) ==
    IF "TOV" \in df.columns /\ "TO" \notin df.columns
    THEN LET cols == (df.columns \ {"TOV"}) \cup {"TO"}
         IN  [columns |-> cols,
              rows |-> [k \in 1..Len(df.rows) |->
                          [c \in cols |-> IF c = "TO" THEN df.rows[k]["TOV"]
                                          ELSE df.rows[k][c]]]]
    ELSE df

NEEDED_COLS(sc) ==
    IF sc = LOCAL_SCRIPT
    THEN {"PTS", "REB", "AST", "STL", "BLK", "FG3M", "TO",
          "FGM", "FGA", "FG3A", "FTM", "FTA", "TEAM_ABBREVIATION"}
    ELSE {"PTS", "REB", "AST", "STL", "BLK", "FG3M", "TO",
          "FGM", "FG3A", "FTM", "TEAM_ABBREVIATION"}

\* for col in needed_cols: if col not in spiele.columns: spiele[col] = 0
FillNeeded(sc, df) ==
    LET cols == df.columns \cup NEEDED_COLS(sc)
    IN  [columns |-> cols,
         rows |-> [k \in 1..Len(df.rows) |->
                     [c \in cols |-> IF c \in df.columns THEN df.rows[k][c]
                                     ELSE IntCell(0)]]]

\* spiele["FG2M"] = (spiele["FGM"] - spiele["FG3M"]).clip(lower=0)
AddFG2M(df) ==
    LET cols == df.columns \cup {"FG2M"}
        made(row) == row["FGM"].v - row["FG3M"].v
    IN  [columns |-> cols,
         rows |-> [k \in 1..Len(df.rows) |->
                     [c \in cols |->
                        IF c = "FG2M"
                        THEN IntCell(IF made(df.rows[k]) < 0 THEN 0 ELSE made(df.rows[k]))
                        ELSE df.rows[k][c]]]]

\* the frame the main loop works on
PrepareFrame(sc, df) == AddFG2M(FillNeeded(sc, RenameTOV(df)))

(***************************************************************************)
(* get_current_team_abbrev                                                 *)
(***************************************************************************)
TEAM_COL == "TEAM_ABBREVIATION"
FA == <<"F", "A">>

\* the try block: the profile's team abbreviation, "" on any failure
ProfileTeam(answer) ==
    IF answer.kind = "ok" /\ TEAM_COL \in answer.data.columns /\ ~FrameEmpty(answer.data)
    THEN Strip(PyStr(answer.data.rows[1][TEAM_COL]))
    ELSE <<>>

\* the fallback to the first game of the log
GameTeam(team_abbr, spiele_df) ==
    IF team_abbr = <<>> /\ ~FrameEmpty(spiele_df) /\ TEAM_COL \in spiele_df.columns
    THEN Strip(PyStr(spiele_df.rows[1][TEAM_COL]))
    ELSE team_abbr

\* team_abbr if team_abbr else "FA"
OrFA(team_abbr) == IF team_abbr = <<>> THEN FA ELSE team_abbr

\* get_current_team_abbrev that asks the server although the id is cached
TeamAbbrevUncached(sc, cache, player_id, spiele_df, attempts) ==
    LET answer == retry_api_call(attempts, RETRIES(sc))
        team   == OrFA(GameTeam(ProfileTeam(answer), spiele_df))
    IN  [team |-> team, cache |-> (player_id :> team) @@ cache, calls |-> answer.calls]

\* get_current_team_abbrev(player_id, spiele_df): the team returned, the cache
\* afterwards and the number of CommonPlayerInfo requests made
get_current_team_abbrev(sc, cache, player_id, spiele_df, attempts) ==
    IF player_id \in DOMAIN cache
    THEN [team |-> cache[player_id], cache |-> cache, calls |-> 0]
    ELSE LET answer == retry_api_call(attempts, RETRIES(sc))
             team   == OrFA(GameTeam(ProfileTeam(answer), spiele_df))
         IN  [team |-> team, cache |-> (player_id :> team) @@ cache,
              calls |-> answer.calls]

(***************************************************************************)
(* count_milestones and the two windows.                                   *)
(***************************************************************************)
LAST_N == 8

\* the thresholds of every metric
milestones ==
    ("PTS" :> <<3, 5, 7, 10, 12, 14, 17, 20>>)
        @@ ("REB" :> <<1, 2, 3, 4, 5, 6, 7, 8, 9, 10>>)
        @@ ("AST" :> <<1, 2, 3, 4, 5, 6, 7, 8, 9, 10>>)
        @@ ("STL" :> <<1, 2>>)
        @@ ("BLK" :> <<1, 2>>)
        @@ ("STL+BLK" :> <<1, 2, 3>>)
        @@ ("FG3M" :> <<1, 2, 3>>)
        @@ ("FG2M" :> <<2, 4, 6, 8, 10, 12>>)
        @@ ("FTM" :> <<2, 4, 6, 8, 10>>)
        @@ ("TO" :> <<1, 2, 3, 4, 5>>)

\* spiele.get(col, 0), a scalar 0 spread over the games
ColumnOrZero(df, col) ==
    [k \in 1..Len(df.rows) |-> IF col \in df.columns THEN df.rows[k][col].v ELSE 0]

\* serie: the metric's column, STL + BLK for the composite metric
MetricSeries(df, metric) ==
    IF metric = "STL+BLK"
    THEN [k \in 1..Len(df.rows) |->
              ColumnOrZero(df, "STL")[k] + ColumnOrZero(df, "BLK")[k]]
    ELSE ColumnOrZero(df, metric)

\* a count of the games that hit the limit exactly
CountEqual(serie, limit) == Cardinality({k \in DOMAIN serie : serie[k] = limit})

\* int((serie >= limit).sum())
CountAtLeast(serie, limit) == Cardinality({k \in DOMAIN serie : serie[k] >= limit})

\* counts[metric][limit], the key f"{limit}+" written as the limit
count_milestones(spiele, thresholds) ==
    [metric \in DOMAIN thresholds |->
        [limit \in Range(thresholds[metric]) |->
            CountAtLeast(MetricSeries(spiele, metric), limit)]]

\* spiele.head(n)
FrameHead(df, n) ==
    [columns |-> df.columns,
     rows |-> SubSeq(df.rows, 1, IF Len(df.rows) < n THEN Len(df.rows) ELSE n)]

\* a recent window that is the whole season
WholeSeason(spiele) == spiele

\* letzte_n_spiele = spiele.head(LAST_N) if not spiele.empty else spiele
letzte_n_spiele(spiele) ==
    IF ~FrameEmpty(spiele) THEN FrameHead(spiele, LAST_N) ELSE spiele

\* the counts and the number of games of a report
Counts(spiele) ==
    [LastNGames  |-> count_milestones(letzte_n_spiele(spiele), milestones),
     FullSeason  |-> count_milestones(spiele, milestones),
     GamesPlayed |-> Len(spiele.rows)]

\* last_n_pct, full_pct: (val / den * 100) if den > 0 else 0.0, in hundredths
\* of a percent (the two decimals the sheet shows), rounded to the nearest
Percent(val, den) ==
    IF den > 0 THEN (2 * val * 10000 + den) \div (2 * den) ELSE 0

last_n_pct(last_n_val) == Percent(last_n_val, LAST_N)

full_pct(full_val, gp) == Percent(full_val, gp)

(***************************************************************************)
(* Counting harness: one game log, prepared and counted as the loop body   *)
(* does.                                                                   *)
(***************************************************************************)
MaxGames == 9

GAME_COLS == <<"PTS", "REB", "AST", "STL", "BLK", "FG3M", "TOV", "FGM", "FTM">>

\* a PlayerGameLog row with the values in the order of GAME_COLS
GameRow(values) ==
    [c \in Range(GAME_COLS) |->
        IntCell(values[CHOOSE k \in DOMAIN GAME_COLS : GAME_COLS[k] = c])]

\* a middling game and a big game
GameRows ==
    { GameRow(<<7, 4, 2, 1, 1, 1, 2, 3, 0>>),
      GameRow(<<25, 10, 10, 2, 1, 5, 5, 9, 2>>) }

GameLogs ==
    {EmptyFrame}
        \cup {[columns |-> Range(GAME_COLS), rows |-> r] :
                 r \in BoundedSeq(GameRows, MaxGames)}

InitCount ==
    /\ script \in Scripts
    /\ pc = "start"
    /\ log_frame \in GameLogs
    /\ stats = <<>>
    /\ IdleNorm
    /\ IdleResolve
    /\ IdleMain
    /\ IdleExport
    /\ IdleRetry

\* the loop body from the fetched frame to the counts of the report
CountGames ==
    /\ pc = "start"
    /\ stats' = Counts(PrepareFrame(script, log_frame))
    /\ pc' = "counted"
    /\ UNCHANGED <<script, log_frame, normVars, resolveVars, mainVars, exportVars,
                   retryVars>>

NextCount == CountGames

SpecCount == InitCount /\ [][NextCount]_vars

\* the counts of a window do not grow along a metric's list of thresholds
Monotone(counts) ==
    \A metric \in DOMAIN milestones :
        \A k \in 1..(Len(milestones[metric]) - 1) :
            /\ milestones[metric][k] < milestones[metric][k + 1]
            /\ counts[metric][milestones[metric][k]]
                   >= counts[metric][milestones[metric][k + 1]]

\* C11: for every metric, STL+BLK included, and every game sequence the
\* count for a threshold is not larger than the count for the threshold before
\* it in the metric's ascending list, in the recent window and in the season.
C11_MonotoneCounts ==
    pc = "counted" => Monotone(stats.LastNGames) /\ Monotone(stats.FullSeason)

C11_Witness ==
    /\ pc = "counted"
    /\ stats.GamesPlayed = 3
    /\ stats.FullSeason["PTS"][3] = 3
    /\ stats.FullSeason["PTS"][10] = 1
    /\ stats.FullSeason["STL+BLK"][2] = 3
    /\ stats.FullSeason["STL+BLK"][3] = 1

\* C12: in every report the recent counts are counts over the first
\* min(LAST_N, gamesPlayed) games and lie in 0..LAST_N, the season counts lie
\* in 0..gamesPlayed, both percentages lie between 0 and 100 percent, and a
\* percentage whose denominator is 0 is 0.
C12_PercentageBounds ==
    pc = "counted" =>
        LET gp     == stats.GamesPlayed
            window == IF gp < LAST_N THEN gp ELSE LAST_N
        IN  \A metric \in DOMAIN milestones :
                \A limit \in Range(milestones[metric]) :
                    LET last_n_val == stats.LastNGames[metric][limit]
                        full_val   == stats.FullSeason[metric][limit]
                    IN  /\ 0 <= last_n_val /\ last_n_val <= window
                        /\ last_n_val <= full_val
                        /\ 0 <= full_val /\ full_val <= gp
                        /\ 0 <= last_n_pct(last_n_val)
                        /\ last_n_pct(last_n_val) <= 10000
                        /\ 0 <= full_pct(full_val, gp)
                        /\ full_pct(full_val, gp) <= 10000
                        /\ gp = 0 => full_pct(full_val, gp) = 0
                        /\ LAST_N = 0 => last_n_pct(last_n_val) = 0

C12_Witness ==
    /\ pc = "counted"
    /\ stats.GamesPlayed = MaxGames
    /\ stats.LastNGames["PTS"][3] = LAST_N
    /\ stats.FullSeason["PTS"][3] = MaxGames
    /\ last_n_pct(stats.LastNGames["PTS"][3]) = 10000

(***************************************************************************)
(* The main loop.                                                          *)
(***************************************************************************)
MaxRoster == 2

\* _ALL_PLAYERS of the run
RunPlayers ==
    << [id |-> 4, full_name |-> MIKE_JAMES,   is_active |-> TRUE],
       [id |-> 5, full_name |-> LEBRON_JAMES, is_active |-> TRUE] >>

\* the names a roster is made of: two spellings of one player, a misspelling
\* of another and an unknown name
RosterNames == {LEBRON_JAMES_LOWER, LEBRON_JAMES, MIKE_JAME, ZZZ}

LAL == <<"L", "A", "L">>
BOS == <<"B", "O", "S">>

\* CommonPlayerInfo answers: a team, a blank team, no row
ProfileSamples ==
    { [columns |-> {TEAM_COL}, rows |-> << [c \in {TEAM_COL} |-> StrCell(LAL)] >>],
      [columns |-> {TEAM_COL}, rows |-> << [c \in {TEAM_COL} |-> StrCell(<<" ">>)] >>],
      [columns |-> {TEAM_COL}, rows |-> <<>>] }

\* a PlayerGameLog row without a team column
StatRow(pts, fgm, fg3m) ==
    [c \in {"PTS", "TOV", "FGM", "FG3M"} |->
        IF c = "PTS" THEN IntCell(pts)
        ELSE IF c = "FGM" THEN IntCell(fgm)
        ELSE IF c = "FG3M" THEN IntCell(fg3m)
        ELSE IntCell(1)]

\* a game log row with a team column
TeamRow(team, pts) ==
    [c \in {TEAM_COL, "PTS"} |-> IF c = TEAM_COL THEN StrCell(team) ELSE IntCell(pts)]

\* PlayerGameLog answers: no frame, one game without a team column, two games
\* with a team column
GameLogSamples ==
    { EmptyFrame,
      [columns |-> {"PTS", "TOV", "FGM", "FG3M"}, rows |-> << StatRow(25, 10, 2) >>],
      [columns |-> {TEAM_COL, "PTS"}, rows |-> << TeamRow(BOS, 15), TeamRow(LAL, 7) >>] }

ProfileRuns(sc) ==
    AttemptRuns(RETRIES(sc), {ErrorOutcome} \cup {OkOutcome(df) : df \in ProfileSamples})

GameLogRuns(sc) ==
    AttemptRuns(RETRIES(sc), {ErrorOutcome} \cup {OkOutcome(df) : df \in GameLogSamples})

CI_PLAYER_LIMIT == 120

\* collect.py: if RUNNING_IN_CI and len(spieler_namen) > CI_PLAYER_LIMIT:
\*                 spieler_namen = spieler_namen[:CI_PLAYER_LIMIT]
CiLimit(ci, names) ==
    IF ci /\ Len(names) > CI_PLAYER_LIMIT THEN SubSeq(names, 1, CI_PLAYER_LIMIT)
    ELSE names

\* json_payload: per team the list of {player, gp, lastN, season}
JsonPayload(groups) ==
    [team \in DOMAIN groups |->
        [k \in DOMAIN groups[team] |->
            [player |-> groups[team][k].Player,
             gp     |-> groups[team][k].GamesPlayed,
             lastN  |-> groups[team][k].LastNGames,
             season |-> groups[team][k].FullSeason]]]

\* what an earlier run left in public/data/milestones.json
PREVIOUS_JSON ==
    JsonPayload(BOS :> << [Player |-> MIKE_JAMES]
                              @@ Counts(PrepareFrame(CI_SCRIPT, EmptyFrame)) >>)

Init ==
    /\ script \in Scripts
    /\ pc = "loop"
    /\ players = RunPlayers
    /\ running_in_ci \in (IF script = CI_SCRIPT THEN BOOLEAN ELSE {FALSE})
    /\ milestones_json = PREVIOUS_JSON
    /\ spieler_namen \in {CiLimit(running_in_ci, names) :
                              names \in BoundedSeq(RosterNames, MaxRoster)}
    /\ pos = 1
    /\ ergebnisse = <<>>
    /\ not_found = <<>>
    /\ spieler_cache = <<>>
    /\ current_team_cache = <<>>
    /\ profile_calls = <<>>
    /\ history = <<>>
    /\ raw_name = <<>>
    /\ resolved = NotResolved
    /\ IdleNorm
    /\ IdleCount
    /\ IdleRetry

\* name = raw_name.strip()
CurrentName == Strip(spieler_namen[pos])

\* resolve_player_id on the names of the run: the index is built once, from
\* RunPlayers, and the function is pure
ResolutionTable ==
    [sc \in Scripts |->
        [name \in {Strip(r) : r \in RosterNames} |->
            resolve_player_id(sc, RunPlayers, name)]]

\* spieler_id, resolved_name of the entry: from spieler_cache with the name as
\* given ("NBA Github.py"), else from resolve_player_id
IdentityOf(sc, cache, name) ==
    IF sc = LOCAL_SCRIPT /\ name \in DOMAIN cache
    THEN [id |-> cache[name], name |-> name]
    ELSE ResolutionTable[sc][name]

Identity == IdentityOf(script, spieler_cache, CurrentName)

\* spieler_cache[name] = spieler_id ("NBA Github.py", on a resolved cache miss)
CacheStore(sc, cache, name, id) ==
    IF sc = LOCAL_SCRIPT /\ name \notin DOMAIN cache THEN (name :> id) @@ cache ELSE cache

\* the test inverted: resolved names are taken as not found
IsTruthy(spieler_id) == spieler_id # NoId

\* if not spieler_id
IsFalsy(spieler_id) == spieler_id = NoId

\* the counts of the game logs of the run: count_milestones is pure
CountsTable ==
    [spiele \in {PrepareFrame(sc, df) : sc \in Scripts, df \in GameLogSamples} |->
        Counts(spiele)]

\* the report appended for a player
Report(resolved_name, spiele) == [Player |-> resolved_name] @@ CountsTable[spiele]

\* an append that replaces the team's list
GroupReplace(groups, team, report) == (team :> <<report>>) @@ groups

\* ergebnisse.setdefault(team_abbr, []).append(report)
GroupAppend(groups, team, report) ==
    IF team \in DOMAIN groups
    THEN [groups EXCEPT ![team] = Append(@, report)]
    ELSE (team :> <<report>>) @@ groups

\* profile_calls[id] += n
CountCalls(counts, id, n) ==
    IF id \in DOMAIN counts THEN [counts EXCEPT ![id] = @ + n]
    ELSE (id :> n) @@ counts

InLoop == pc = "loop" /\ pos <= Len(spieler_namen)

\* the team abbreviation on the first game of the log as the server sent it
FirstGameTeam(log) ==
    IF ~FrameEmpty(log) /\ TEAM_COL \in log.columns
    THEN Strip(PyStr(log.rows[1][TEAM_COL]))
    ELSE <<>>

\* what the run did with one roster entry (history is a record of the run, not
\* a variable of the scripts): the step taken, the identity attached, the team,
\* whether current_team_cache had the id, and what the profile lookup and the
\* game log said about the team
Entry(name, step, who, team, hit, profile, game) ==
    [name |-> name, step |-> step, id |-> who.id, player |-> who.name,
     team |-> team, hit |-> hit, profile |-> profile, game |-> game]

\* an except clause that names ReadTimeout alone
ExceptReadTimeout(kind) == kind = "timeout"

\* except Exception as e: log_error(...) -- ReadTimeout and every other
\* exception the request raises are instances of Exception
ExceptException(kind) == kind \in {"timeout", "error"}

\* the loop body for a name resolve_player_id does not resolve
EntryNotFound ==
    /\ InLoop
    /\ \E who \in {Identity} :
          /\ IsFalsy(who.id)
          /\ not_found' = Append(not_found, CurrentName)
          /\ history' = Append(history,
                               Entry(CurrentName, "not_found", NotResolved,
                                     <<>>, FALSE, <<>>, <<>>))
    /\ pos' = pos + 1
    /\ UNCHANGED <<restVars, script, pc, normVars, resolveVars, spieler_namen, ergebnisse,
                   spieler_cache, current_team_cache, profile_calls>>

\* the loop body when the game log request raises (ReadTimeout after the last
\* retry, or another exception): the except clause logs and the loop goes on
EntryFailed ==
    /\ InLoop
    /\ \E who \in {Identity} :
          /\ ~IsFalsy(who.id)
          /\ \E run \in GameLogRuns(script) :
                \E gamelog \in {retry_api_call(run, RETRIES(script))} :
                   /\ gamelog.kind # "ok"
                   /\ IF ExceptException(gamelog.kind)
                      THEN pc' = pc /\ pos' = pos + 1
                      ELSE pc' = "aborted" /\ pos' = pos
          /\ spieler_cache' = CacheStore(script, spieler_cache, CurrentName, who.id)
          /\ history' = Append(history,
                               Entry(CurrentName, "failed", who, <<>>, FALSE,
                                     <<>>, <<>>))
    /\ UNCHANGED <<restVars, script, normVars, resolveVars, spieler_namen, ergebnisse,
                   not_found, current_team_cache, profile_calls>>

\* the loop body when the game log arrives: team lookup and report
EntryReported ==
    /\ InLoop
    /\ \E who \in {Identity} :
          /\ ~IsFalsy(who.id)
          /\ \E run \in GameLogRuns(script), lookup \in ProfileRuns(script) :
                \E gamelog \in {retry_api_call(run, RETRIES(script))} :
                   /\ gamelog.kind = "ok"
                   /\ \E spiele \in {PrepareFrame(script, gamelog.data)},
                         hit \in {who.id \in DOMAIN current_team_cache} :
                        \E t \in {get_current_team_abbrev(script, current_team_cache,
                                                          who.id, spiele, lookup)} :
                           /\ current_team_cache' = t.cache
                           /\ profile_calls' =
                                  CountCalls(profile_calls, who.id, t.calls)
                           /\ ergebnisse' = GroupAppend(ergebnisse, t.team,
                                                        Report(who.name, spiele))
                           /\ history' =
                                  Append(history,
                                         Entry(CurrentName, "reported", who, t.team, hit,
                                               IF hit THEN <<>>
                                               ELSE ProfileTeam(retry_api_call(
                                                        lookup, RETRIES(script))),
                                               FirstGameTeam(gamelog.data)))
          /\ spieler_cache' = CacheStore(script, spieler_cache, CurrentName, who.id)
    /\ pos' = pos + 1
    /\ UNCHANGED <<restVars, script, pc, normVars, resolveVars, spieler_namen, not_found>>

\* the loop is over
Finish ==
    /\ pc = "loop"
    /\ pos > Len(spieler_namen)
    /\ pc' = "done"
    /\ UNCHANGED <<restVars, script, normVars, resolveVars, mainVars>>

\* wb.save(output_xlsx) of a workbook with one sheet per team: it returns, or,
\* for a workbook left without any sheet, openpyxl may refuse with an
\* IndexError ("At least one sheet must be visible"), which nothing catches
SaveOutcomes(groups) ==
    IF DOMAIN groups = {} THEN {"saved", "raised"} ELSE {"saved"}

\* the script after the loop: the workbook is saved, then milestones.json is
\* written; an exception of wb.save ends the script before that
WriteOutputs ==
    /\ pc = "done"
    /\ \E saved \in SaveOutcomes(ergebnisse) :
          IF saved = "saved"
          THEN /\ milestones_json' = JsonPayload(ergebnisse)
               /\ pc' = "exported"
          ELSE /\ milestones_json' = milestones_json
               /\ pc' = "crashed"
    /\ UNCHANGED <<countVars, retryVars, running_in_ci, script, normVars,
                   resolveVars, mainVars>>

Next == EntryNotFound \/ EntryFailed \/ EntryReported \/ Finish \/ WriteOutputs

Spec == Init /\ [][Next]_vars

(***************************************************************************)
(* Properties of the main loop.  Entry i of history is what the run did    *)
(* with entry i of the roster.                                             *)
(***************************************************************************)
Reported == {i \in DOMAIN history : history[i].step = "reported"}
Resolved == {i \in DOMAIN history : history[i].step # "not_found"}

\* what resolve_player_id answers for roster entry i on its own
Alone(i) == ResolutionTable[script][Strip(spieler_namen[i])]

\* the players a run reported under team t, in roster order
ReportedUnder(t) ==
    LET es == SelectSeq(history, LAMBDA e : e.step = "reported" /\ e.team = t)
    IN  [k \in DOMAIN es |-> es[k].player]

\* the team groups hold the reports of the reported entries, each once, in
\* roster order, and nothing else
GroupsMirrorRun ==
    /\ DOMAIN ergebnisse = {history[i].team : i \in Reported}
    /\ \A t \in DOMAIN ergebnisse :
          [k \in DOMAIN ergebnisse[t] |-> ergebnisse[t][k].Player] = ReportedUnder(t)

\* C4: the id and the resolved name attached to a roster entry are those
\* resolve_player_id gives for its raw name alone, whatever was processed
\* before; two occurrences of one raw name are reported with the same id and
\* the same resolved name.
C4_IdentityDeterminism ==
    /\ \A i \in Resolved :
          history[i].id = Alone(i).id /\ history[i].player = Alone(i).name
    /\ \A i, j \in Reported :
          spieler_namen[i] = spieler_namen[j] =>
              history[i].id = history[j].id /\ history[i].player = history[j].player

\* C5 as stated: after the run every resolved player has exactly one report in
\* the team groups: none twice, none missing.
C5_GroupingComplete ==
    pc = "done" =>
        /\ GroupsMirrorRun
        /\ \A i \in Resolved :
              Cardinality({j \in Reported : history[j].id = history[i].id}) = 1

\* C5 amended: every roster entry that resolved and whose game log arrived has
\* exactly one report, in exactly one team group, the group of the team cached
\* for its id; all reports of one id are in the same group; entries that did
\* not resolve or whose game log request failed have none.
C5_GroupingPerEntry ==
    /\ GroupsMirrorRun
    /\ \A i \in Reported :
          /\ history[i].id \in DOMAIN current_team_cache
          /\ history[i].team = current_team_cache[history[i].id]
    /\ \A i, j \in Reported :
          history[i].id = history[j].id => history[i].team = history[j].team

C5_Witness ==
    /\ pc = "done"
    /\ Reported = {1, 2}
    /\ history[1].id = history[2].id
    /\ Len(ergebnisse[history[1].team]) = 2

\* C6: for an id not in the cache the team is the profile lookup's abbreviation
\* when there is one, else the abbreviation on the first game of the log when
\* there is one, else "FA" and no other placeholder.
C6_TeamOrderAndSentinel ==
    \A i \in Reported :
        ~history[i].hit =>
            history[i].team =
                IF history[i].profile # <<>> THEN history[i].profile
                ELSE IF history[i].game # <<>> THEN history[i].game
                ELSE FA

\* the memoization of C7 with at most `most` profile requests for an id
Memoized(most) ==
    /\ \A i \in Reported :
          /\ history[i].id \in DOMAIN current_team_cache
          /\ current_team_cache[history[i].id] = history[i].team
          /\ history[i].hit <=> \E j \in Reported : j < i /\ history[j].id = history[i].id
    /\ DOMAIN profile_calls = DOMAIN current_team_cache
    /\ \A id \in DOMAIN profile_calls : profile_calls[id] <= most

\* C7 as stated: the cache entry of an id is written once and never changes,
\* later calls return it, and the profile lookup is requested at most once for
\* an id, the requests of the retry wrapper counted.
C7_LookupAtMostOnce == Memoized(1)

\* C7 amended: the cache entry of an id is written once and never changes,
\* later calls return it, and the profile lookup is requested only by the first
\* call for an id, at most `retries` times (3 in "NBA Github.py", 1 in
\* collect.py), again only after a timeout.
C7_LookupAtMostRetries == Memoized(RETRIES(script))

C7_Witness ==
    /\ Reported = {1, 2}
    /\ history[1].id = history[2].id
    /\ history[2].hit
    /\ profile_calls[history[1].id] = RETRIES_LOCAL

\* C8: a failed game log request is caught at its entry: the step that records
\* the failure leaves the team groups and the unresolved names as they were and
\* moves on to the next entry, the run is never aborted, and at its end every
\* roster entry has been processed, in roster order.
C8_FailureIsolation ==
    /\ [][(Len(history') = Len(history) + 1 /\ history'[Len(history')].step = "failed")
            => /\ ergebnisse' = ergebnisse
               /\ not_found' = not_found
               /\ pos' = pos + 1
               /\ pc' = "loop"]_vars
    /\ [](/\ pc # "aborted"
          /\ Len(history) = pos - 1
          /\ \A i \in DOMAIN history : history[i].name = Strip(spieler_namen[i])
          /\ pc = "done" => Len(history) = Len(spieler_namen))

C8_Witness ==
    /\ pc = "done"
    /\ Len(history) = 2
    /\ history[1].step = "failed"
    /\ history[2].step = "reported"

\* the number of reports in the team groups
RECURSIVE SumLen(_, _)
SumLen(groups, teams) ==
    IF teams = {} THEN 0
    ELSE LET t == CHOOSE x \in teams : TRUE
         IN  Len(groups[t]) + SumLen(groups, teams \ {t})

\* C9: the trimmed name of a processed roster entry is in not_found exactly
\* when resolve_player_id does not resolve it; not_found lists these names in
\* roster order; such an entry has no report; and the run still processes
\* every entry.
C9_UnresolvedSink ==
    /\ \A i \in DOMAIN history :
          (\E k \in DOMAIN not_found : not_found[k] = Strip(spieler_namen[i]))
              <=> Alone(i).id = NoId
    /\ LET es == SelectSeq(history, LAMBDA e : e.step = "not_found")
       IN  not_found = [k \in DOMAIN es |-> es[k].name]
    /\ SumLen(ergebnisse, DOMAIN ergebnisse)
           <= Cardinality({i \in DOMAIN history : Alone(i).id # NoId})
    /\ pc = "done" => Len(history) = Len(spieler_namen)

C9_Witness ==
    /\ pc = "done"
    /\ Len(history) = 2
    /\ history[1].step = "not_found"
    /\ history[2].step = "reported"
    /\ not_found = <<Strip(ZZZ)>>

=============================================================================
